---- MODULE Spec2Model ----
(***************************************************************************)
(* wtm: a front end over `git worktree`.  The model holds the repository   *)
(* state git keeps (worktrees, branches, directories) and one action per   *)
(* wtm operation (AddWorktree, ListWorktrees, ShowWorktree, RemoveWorktree *)
(* and the MCP tool handlers), each translated from src/worktree.go and    *)
(* src/mcp.go.  Strings that the code takes apart are modelled by their    *)
(* parts: a path, a name or a branch is the sequence of its "/"-separated  *)
(* segments (the empty string is <<>>), a line read from standard input is *)
(* the sequence of its characters, a message is a sequence of tokens.      *)
(***************************************************************************)
EXTENDS Integers, Sequences, FiniteSets, TLC

VARIABLES gitWorktrees, gitBranches, dirs, cwdInRepo, last, pure, proc, rm

\* pure holds one call of a function of the program on its own: the input
\* and, once the call is done, the result.  proc holds the memory of one
\* long-lived wtm process (the configuration cache) and its environment.
vars == <<gitWorktrees, gitBranches, dirs, cwdInRepo, last, pure, proc, rm>>

(***************************************************************************)
(* Bounds and input sets                                                   *)
(***************************************************************************)

\* Most commits the branches of the repository hold on top of the initial
\* commit.
MaxCommits == 1

\* Worktree names handed to the operations.  <<"x","a">> is the name "x/a".
Names == { <<"a">>, <<"x", "a">> }

\* The -b, -B and --base options of one add call ("" is <<>>).
AddOptions(branch, checkout, base) == [branch |-> branch, checkout |-> checkout, base |-> base]

AddInputs ==
    { AddOptions(<<>>, <<>>, <<>>), AddOptions(<<"f">>, <<>>, <<>>),
      AddOptions(<<>>, <<"a">>, <<>>), AddOptions(<<>>, <<"v1">>, <<>>),
      AddOptions(<<"f">>, <<"a">>, <<>>), AddOptions(<<>>, <<>>, <<"main">>),
      AddOptions(<<>>, <<"v1">>, <<"main">>) }

\* The inputs of the wtm_add tool: no option, a branch, and a checkout of a
\* tag.
McpAddInputs ==
    { AddOptions(<<>>, <<>>, <<>>), AddOptions(<<"f">>, <<>>, <<>>),
      AddOptions(<<>>, <<"v1">>, <<>>) }

\* Tags of the repository (a checkout of a tag gives a detached HEAD).
Tags == { <<"v1">> }

\* Lines the user may type at the confirmation prompt; a line without "\n"
\* is input that ends (EOF) before a newline.
StdinInputs ==
    { <<"y", "\n">>, <<" ", "Y", "E", "S", " ", "\n">>, <<"n", "\n">>,
      <<"y", "e", "s", "s", "\n">>, <<"y">>, <<"n">> }

\* What the standard input of the MCP server holds when a tool handler
\* reads a line from it: a line "y", the next request of the client (a line
\* of JSON), or nothing more (the client closed the stream).
McpStdinInputs == { <<"y", "\n">>, <<"{", "}", "\n">>, <<>> }

\* Lines typed at the prompt of a call that also asks for a branch deletion.
ShortStdinInputs == { <<"y", "\n">>, <<"n", "\n">> }

\* The repository root and the main worktree, checked out on branch main.
RepoRoot == <<"repo">>

MainBranch == <<"main">>

(***************************************************************************)
(* Types of src/worktree.go                                                *)
(***************************************************************************)

BranchDeleteNone == 0

BranchDeleteSafe == 1

BranchDeleteForce == 2

BranchDeleteModes == { BranchDeleteNone, BranchDeleteSafe, BranchDeleteForce }

\* Worktree{Name, Branch, Path, HEAD, Created}
Worktree(name, branch, path, head, created) ==
    [Name |-> name, Branch |-> branch, Path |-> path, HEAD |-> head, Created |-> created]

\* The zero value Worktree{}.
ZeroWorktree == Worktree(<<>>, <<>>, <<>>, <<>>, "zero")

(***************************************************************************)
(* Path helpers (path/filepath)                                            *)
(***************************************************************************)

\* filepath.Join of two paths.
Join(a, b) == a \o b

\* filepath.Base: the last segment; "." for the empty path.
Base(p) == IF Len(p) = 0 THEN <<".">> ELSE <<p[Len(p)]>>

IsPrefix(p, q) == Len(p) <= Len(q) /\ SubSeq(q, 1, Len(p)) = p

\* defaultWorktreeRoot = ".git/wtm/worktrees"
defaultWorktreeRoot == <<".git", "wtm", "worktrees">>

IsSpace(c) == c \in {" ", "\n", "\t", "\r"}

\* strings.TrimSpace: drop the white space at both ends.
TrimSpace(s) ==
    LET keep == { i \in 1..Len(s) : ~IsSpace(s[i]) }
    IN  IF keep = {} THEN <<>>
        ELSE SubSeq(s, CHOOSE i \in keep : \A j \in keep : i <= j,
                       CHOOSE i \in keep : \A j \in keep : i >= j)

\* A path as the code holds it in a string: the sequence of its segments,
\* with "/" in front when the path is absolute; " " is one white space.
IsAbs(p) == Len(p) > 0 /\ p[1] = "/"

\* The segments of a cleaned path: "." dropped, ".." taking back the segment
\* before it (at the root of an absolute path ".." is dropped).
RECURSIVE CleanSegs(_, _, _, _)
CleanSegs(segs, i, acc, abs) ==
    IF i > Len(segs) THEN acc
    ELSE IF segs[i] = "." THEN CleanSegs(segs, i + 1, acc, abs)
    ELSE IF segs[i] = ".."
    THEN IF Len(acc) > 0 /\ acc[Len(acc)] # ".."
         THEN CleanSegs(segs, i + 1, SubSeq(acc, 1, Len(acc) - 1), abs)
         ELSE IF abs THEN CleanSegs(segs, i + 1, acc, abs)
         ELSE CleanSegs(segs, i + 1, Append(acc, ".."), abs)
    ELSE CleanSegs(segs, i + 1, Append(acc, segs[i]), abs)

\* filepath.Clean
Clean(p) ==
    IF IsAbs(p) THEN <<"/">> \o CleanSegs(Tail(p), 1, <<>>, TRUE)
    ELSE IF CleanSegs(p, 1, <<>>, FALSE) = <<>> THEN <<".">>
    ELSE CleanSegs(p, 1, <<>>, FALSE)

\* filepath.Join of two path strings: empty elements are ignored and the
\* result is cleaned.
JoinClean(a, b) ==
    IF a = <<>> THEN (IF b = <<>> THEN <<>> ELSE Clean(b))
    ELSE Clean(a \o (IF IsAbs(b) THEN Tail(b) ELSE b))

\* Config{WorktreeRoot}
Config(worktreeRoot) == [WorktreeRoot |-> worktreeRoot]

\* What loadConfig returns: the configuration and the error ("nil" for none).
Loaded(cfg, err) == [cfg |-> cfg, err |-> err]

\* What `git rev-parse --git-common-dir` prints in directory cwd: the path of
\* the main worktree's .git relative to cwd inside the main worktree, the
\* absolute path inside a linked worktree.
gitCommonDir(cwd) ==
    IF IsPrefix(<<"/">> \o RepoRoot \o <<".git">>, cwd)
    THEN <<"/">> \o RepoRoot \o <<".git">>
    ELSE [i \in 1..(Len(cwd) - Len(RepoRoot) - 1) |-> ".."] \o <<".git">>

\* repoRoot taking the current directory for the repository root.
repoRoot_cwd(commonDir, cwd) == cwd

\* commonDir made absolute on cwd, then its parent (lines 67-76).
repoRoot(commonDir, cwd) ==
    Clean(JoinClean(IF IsAbs(commonDir) THEN commonDir ELSE JoinClean(cwd, commonDir),
                    <<"..">>))

\* resolveWorktreeBase for the configuration loadConfig returned, run in cwd.
resolveWorktreeBaseFrom(loaded, cwd) ==
    LET trimmed == TrimSpace(loaded.cfg.WorktreeRoot)
        root == IF trimmed = <<>> THEN defaultWorktreeRoot ELSE trimmed
        base == IF IsAbs(root) THEN root
                ELSE JoinClean(repoRoot(TrimSpace(gitCommonDir(cwd)), cwd), root)
    IN  IF loaded.err # "nil" THEN [err |-> loaded.err, base |-> <<>>]
        ELSE [err |-> "nil", base |-> Clean(base)]

\* resolveWorktreeBase as AddWorktree calls it in a process that found no
\* configuration file: the segments of <repo root>/<default root>, which is
\* resolveWorktreeBaseFrom for the zero Config without its leading "/".
resolveWorktreeBase == Join(RepoRoot, defaultWorktreeRoot)

(***************************************************************************)
(* The repository as git keeps it                                          *)
(***************************************************************************)

\* An entry of git's worktree list: branch <<>> means a detached HEAD; head
\* is the commit checked out, named by the number of commits it is ahead of
\* the initial commit (0 is the initial commit, where the tags point).
GitEntry(path, head, branch) == [path |-> path, head |-> head, branch |-> branch]

Repo == [wts |-> gitWorktrees, branches |-> gitBranches, dirs |-> dirs, inRepo |-> cwdInRepo]

\* The commit HEAD of the directory wtm runs in (the main worktree).
HeadCommit(R) == R.wts[1].head

CheckedOut(R, b) == \E i \in 1..Len(R.wts) : R.wts[i].branch = b

RemoveAt(s, i) == SubSeq(s, 1, i - 1) \o SubSeq(s, i + 1, Len(s))

Restrict(f, S) == [x \in S |-> f[x]]

\* A git command as issued through runGitCommand.
Cmd(verb, path, flag, ref, base) ==
    [verb |-> verb, path |-> path, flag |-> flag, ref |-> ref, base |-> base]

\* `git worktree add <path> -b <branch> [<base>]` and
\* `git worktree add <path> <checkout>`.
GitWorktreeAdd(R, c) ==
    LET occupied == \E i \in 1..Len(R.wts) : IsPrefix(c.path, R.wts[i].path)
        start == IF c.base = <<>> THEN HeadCommit(R)
                 ELSE IF c.base \in DOMAIN R.branches THEN R.branches[c.base]
                 ELSE 0
        baseOk == c.base = <<>> \/ c.base \in DOMAIN R.branches \/ c.base \in Tags
        fail == [ok |-> FALSE, repo |-> R]
        added(e, br) == [ok |-> TRUE,
                         repo |-> [R EXCEPT !.wts = Append(@, e),
                                            !.branches = br,
                                            !.dirs = @ \cup {c.path}]]
    IN  IF ~R.inRepo \/ occupied THEN fail
        ELSE IF c.flag = "-b"
        THEN IF c.ref \in DOMAIN R.branches \/ ~baseOk THEN fail
             ELSE added(GitEntry(c.path, start, c.ref),
                        [b \in DOMAIN R.branches \cup {c.ref} |->
                            IF b = c.ref THEN start ELSE R.branches[b]])
        ELSE IF c.ref \in DOMAIN R.branches
        THEN IF CheckedOut(R, c.ref) THEN fail
             ELSE added(GitEntry(c.path, R.branches[c.ref], c.ref), R.branches)
        ELSE IF c.ref \in Tags
        THEN added(GitEntry(c.path, 0, <<>>), R.branches)
        ELSE fail

\* `git worktree remove --force <path>`: the main worktree cannot be removed.
GitWorktreeRemove(R, c) ==
    LET hit == { i \in 2..Len(R.wts) : R.wts[i].path = c.path }
    IN  IF ~R.inRepo \/ hit = {} THEN [ok |-> FALSE, repo |-> R]
        ELSE [ok |-> TRUE,
              repo |-> [R EXCEPT !.wts = RemoveAt(@, CHOOSE i \in hit : TRUE),
                                 !.dirs = @ \ {c.path}]]

\* `git branch -d <branch>` refuses a branch that is not merged into HEAD;
\* `-d` and `-D` both refuse a branch that is checked out or does not exist.
GitBranchDelete(R, c) ==
    IF \/ ~R.inRepo
       \/ c.ref \notin DOMAIN R.branches
       \/ CheckedOut(R, c.ref)
       \/ (c.flag = "-d" /\ R.branches[c.ref] # HeadCommit(R))
    THEN [ok |-> FALSE, repo |-> R]
    ELSE [ok |-> TRUE,
          repo |-> [R EXCEPT !.branches = Restrict(@, DOMAIN @ \ {c.ref})]]

\* The lines of `git worktree list --porcelain`: a line is the sequence of
\* its key and its value, <<>> is a blank line.
RECURSIVE PorcelainFrom(_, _)
PorcelainFrom(wts, i) ==
    IF i > Len(wts) THEN <<>>
    ELSE << <<"worktree", wts[i].path>>, <<"HEAD", <<wts[i].head>> >>,
            IF wts[i].branch = <<>> THEN <<"detached">>
            ELSE <<"branch", <<"refs", "heads">> \o wts[i].branch>>,
            <<>> >> \o PorcelainFrom(wts, i + 1)

GitWorktreeList(R) == PorcelainFrom(R.wts, 1)

(***************************************************************************)
(* getWorktrees (src/worktree.go:299-357)                                  *)
(***************************************************************************)

\* appendCurrent appending the record whatever its path is.
appendCurrent_always(worktrees, current) == Append(worktrees, current)

\* `if current.Path != "" { worktrees = append(worktrees, current) }`
\* (lines 311-312 and 344-346).
appendCurrent(worktrees, current) ==
    IF current.Path # <<>> THEN Append(worktrees, current) ELSE worktrees

\* One step of the loop over the lines, then the rest of the lines.
RECURSIVE ParseLines(_, _, _, _)
ParseLines(lines, i, worktrees, current) ==
    IF i > Len(lines)
    THEN appendCurrent(worktrees, current)
    ELSE LET line == lines[i] IN
         IF Len(line) = 0
         THEN ParseLines(lines, i + 1, appendCurrent(worktrees, current),
                         IF current.Path # <<>> THEN ZeroWorktree ELSE current)
         ELSE IF Len(line) < 2
         THEN ParseLines(lines, i + 1, worktrees, current)
         ELSE LET key == line[1]
                  value == line[2]
              IN  IF key = "worktree"
                  THEN ParseLines(lines, i + 1, worktrees,
                                  [current EXCEPT !.Path = value, !.Name = Base(value)])
                  ELSE IF key = "HEAD"
                  THEN ParseLines(lines, i + 1, worktrees, [current EXCEPT !.HEAD = value])
                  ELSE IF key = "branch"
                  THEN ParseLines(lines, i + 1, worktrees,
                                  [current EXCEPT !.Branch =
                                      IF Len(value) > 2 /\ value[1] = "refs" /\ value[2] = "heads"
                                      THEN SubSeq(value, 3, Len(value))
                                      ELSE value])
                  ELSE ParseLines(lines, i + 1, worktrees, current)

\* os.Stat of each record's path: the modification time, or the zero time.
StatCreated(R, worktrees) ==
    [i \in 1..Len(worktrees) |->
        [worktrees[i] EXCEPT !.Created =
            IF worktrees[i].Path \in R.dirs THEN "mtime" ELSE "zero"]]

ListCmd == Cmd("worktree list --porcelain", <<>>, "", <<>>, <<>>)

\* getWorktrees answering from the records the process listed before.
getWorktrees_cached(R) ==
    IF proc.listed # <<>> THEN [err |-> "nil", worktrees |-> proc.listed]
    ELSE IF ~R.inRepo
    THEN [err |-> "ExternalCommand", worktrees |-> <<>>]
    ELSE [err |-> "nil",
          worktrees |-> StatCreated(R, ParseLines(GitWorktreeList(R), 1, <<>>, ZeroWorktree))]

getWorktrees(R) ==
    IF ~R.inRepo
    THEN [err |-> "ExternalCommand", worktrees |-> <<>>]
    ELSE [err |-> "nil",
          worktrees |-> StatCreated(R, ParseLines(GitWorktreeList(R), 1, <<>>, ZeroWorktree))]

\* findByName accepting a record whose name is the last segment of the name
\* asked for.
findByName_base(worktrees, name) ==
    LET hit == { i \in 1..Len(worktrees) : worktrees[i].Name = Base(name) }
    IN  IF hit = {} THEN 0 ELSE CHOOSE i \in hit : \A j \in hit : i <= j

\* findByName comparing the record's branch instead of its name.
findByName_branch(worktrees, name) ==
    LET hit == { i \in 1..Len(worktrees) : worktrees[i].Branch = name }
    IN  IF hit = {} THEN 0 ELSE CHOOSE i \in hit : \A j \in hit : i <= j

\* The loop `for _, wt := range worktrees { if wt.Name == name ... }`:
\* the index of the first record named name, 0 when there is none.
findByName(worktrees, name) ==
    LET hit == { i \in 1..Len(worktrees) : worktrees[i].Name = name }
    IN  IF hit = {} THEN 0 ELSE CHOOSE i \in hit : \A j \in hit : i <= j

(***************************************************************************)
(* Results of one call                                                     *)
(***************************************************************************)

\* A message token: fixed text is one token, a name or a branch is itself.
T(text) == <<text>>

Contains(msg, text) == \E i \in 1..Len(msg) : msg[i] = T(text)

\* What one call did: the repository it left, the error it returned ("nil"
\* for none) with its message, the git commands it issued in order, what it
\* printed on standard output and how often it read standard input.
Res(repo, ret, msg, cmds, out, reads) ==
    [repo |-> repo, ret |-> ret, msg |-> msg, cmds |-> cmds, out |-> out, reads |-> reads]

\* What a failed git command wrote to its standard output and standard error
\* (cmd.CombinedOutput).
GitOutput(c) == T("fatal: " \o c.verb)

\* GitError without the captured output.
GitError_status(c) == << T("exit status") >>

\* The text runGitCommand puts in the error of a failed command:
\* fmt.Errorf("%w: %s", err, string(output)).
GitError(c) == << T("exit status"), GitOutput(c) >>

(***************************************************************************)
(* AddWorktree (src/worktree.go:89-161)                                    *)
(***************************************************************************)

\* The `git worktree add` command built from the arguments (lines 116-138).
addArgs(worktreePath, name, branch, checkout, base) ==
    IF branch # <<>>
    THEN Cmd("worktree add", worktreePath, "-b", branch, base)
    ELSE IF checkout # <<>>
    THEN Cmd("worktree add", worktreePath, "", checkout, <<>>)
    ELSE Cmd("worktree add", worktreePath, "-b", name, base)

AddWorktreeRun(R, name, branch, checkout, base) ==
    LET revParse == Cmd("rev-parse --git-dir", <<>>, "", <<>>, <<>>)
        commonDir == Cmd("rev-parse --git-common-dir", <<>>, "", <<>>, <<>>)
        listed == getWorktrees(R)
        worktreeBase == resolveWorktreeBase
        worktreePath == Join(worktreeBase, name)
        \* os.MkdirAll(worktreeBase, 0o755)
        R1 == [R EXCEPT !.dirs = @ \cup {worktreeBase}]
        args == addArgs(worktreePath, name, branch, checkout, base)
        added == GitWorktreeAdd(R1, args)
        relisted == getWorktrees(added.repo)
        found == findByName(relisted.worktrees, name)
        issued == <<revParse, ListCmd, commonDir, args>>
    IN  IF ~R.inRepo
        THEN Res(R, "NotInRepository", <<T("not in a git repository")>>, <<revParse>>, <<>>, 0)
        ELSE IF listed.err # "nil"
        THEN Res(R, listed.err, GitError(ListCmd), <<revParse, ListCmd>>, <<>>, 0)
        ELSE IF findByName(listed.worktrees, name) # 0
        THEN Res(R, "DuplicateName", <<T("worktree"), name, T("already exists")>>,
                 <<revParse, ListCmd>>, <<>>, 0)
        ELSE IF checkout # <<>> /\ branch # <<>>
        THEN Res(R1, "InvalidArgument", <<T("cannot use both -b and -B options")>>,
                 <<revParse, ListCmd, commonDir>>, <<>>, 0)
        ELSE IF ~added.ok
        THEN Res(R1, "ExternalCommand", GitError(args), issued, <<>>, 0)
        ELSE IF relisted.err # "nil"
        THEN Res(added.repo, relisted.err, GitError(ListCmd), Append(issued, ListCmd), <<>>, 0)
        ELSE IF found # 0
        THEN Res(added.repo, "nil", <<>>, Append(issued, ListCmd),
                 << T("Created worktree:"), relisted.worktrees[found].Name,
                    T("Branch:"), relisted.worktrees[found].Branch,
                    T("Path:"), relisted.worktrees[found].Path >>, 0)
        ELSE Res(added.repo, "nil", <<>>, Append(issued, ListCmd), <<>>, 0)

(***************************************************************************)
(* RemoveWorktree (src/worktree.go:224-296)                                *)
(***************************************************************************)

RemoveOptions(force, branchDelete) == [Force |-> force, BranchDelete |-> branchDelete]

\* reader.ReadString('\n'): the input up to and including the first newline,
\* or all of it with io.EOF when it holds no newline.
ReadString(input) ==
    LET nl == { i \in 1..Len(input) : input[i] = "\n" }
    IN  IF nl = {} THEN [text |-> input, err |-> "EOF"]
        ELSE [text |-> SubSeq(input, 1, CHOOSE i \in nl : \A j \in nl : i <= j),
              err |-> "nil"]

\* strings.ToLower, on the letters the inputs use.
ToLowerChar(c) ==
    IF c = "Y" THEN "y" ELSE IF c = "E" THEN "e" ELSE IF c = "S" THEN "s"
    ELSE IF c = "N" THEN "n" ELSE c

ToLower(s) == [i \in 1..Len(s) |-> ToLowerChar(s[i])]

\* isAffirmative accepting every answer that starts with "y".
isAffirmative_prefix(response) ==
    LET r == TrimSpace(ToLower(response))
    IN  Len(r) > 0 /\ r[1] = "y"

\* response = TrimSpace(ToLower(response)); response == "y" || response == "yes"
isAffirmative(response) ==
    LET r == TrimSpace(ToLower(response))
    IN  r = <<"y">> \/ r = <<"y", "e", "s">>

\* The prompt printed before standard input is read (lines 244-256).
confirmPrompt(target, opts) ==
    << T("Remove worktree"), target.Name >>
    \o (IF target.Branch # <<>> THEN << T("(branch:"), target.Branch >> ELSE <<>>)
    \o << IF opts.BranchDelete = BranchDeleteSafe THEN T("and delete branch?")
          ELSE IF opts.BranchDelete = BranchDeleteForce THEN T("and force delete branch?")
          ELSE T("?"),
          T("[y/N]:") >>

\* branchFlag that never forces the deletion.
branchFlag_safe(branchMode) == "-d"

\* flag := "-d"; if branchMode == BranchDeleteForce { flag = "-D" }
branchFlag(branchMode) == IF branchMode = BranchDeleteForce THEN "-D" ELSE "-d"

\* branchDeleteError that does not say what happened to the worktree.
branchDeleteError_bare(target, branchName, c) ==
    << T("failed to delete branch"), branchName, T(":") >> \o GitError(c)

\* "deleted worktree '%s' but failed to delete branch '%s': %w"
branchDeleteError(target, branchName, c) ==
    << T("deleted worktree"), target.Name, T("but"), T("failed to delete branch"),
       branchName, T(":") >> \o GitError(c)

\* branchDeleteResult that drops the error of `git branch`.
branchDeleteResult_ignored(ok, target, branchName, c) == [ret |-> "nil", msg |-> <<>>]

\* The error returned after `git branch` ran (lines 291-295).
branchDeleteResult(ok, target, branchName, c) ==
    IF ok THEN [ret |-> "nil", msg |-> <<>>]
    ELSE [ret |-> "PartialFailure", msg |-> branchDeleteError(target, branchName, c)]

\* removeCmd naming the worktree by its name instead of its path.
removeCmd_name(target) == Cmd("worktree remove --force", target.Name, "", <<>>, <<>>)

\* runGitCommand("worktree", "remove", "--force", target.Path)
removeCmd(target) == Cmd("worktree remove --force", target.Path, "", <<>>, <<>>)

\* skipBranchDelete that never skips.
skipBranchDelete_never(branchName) == FALSE

\* `if branchName == "" { ...Skipped branch deletion...; return nil }`
skipBranchDelete(branchName) == branchName = <<>>

\* skipConfirm that ignores Force.
skipConfirm_never(opts) == FALSE

\* True when the call skips the confirmation step (`if !opts.Force`).
skipConfirm(opts) == opts.Force

RemoveWorktreeRun(R, name, opts, stdin) ==
    LET listed == getWorktrees(R)
        idx == findByName(listed.worktrees, name)
        target == listed.worktrees[idx]
        prompt == IF skipConfirm(opts) THEN <<>> ELSE confirmPrompt(target, opts)
        reads == IF skipConfirm(opts) THEN 0 ELSE 1
        read == ReadString(stdin)
        rmCmd == removeCmd(target)
        removed == GitWorktreeRemove(R, rmCmd)
        outRemoved == prompt \o << T("Removed worktree:"), target.Name >>
        branchName == target.Branch
        brCmd == Cmd("branch", <<>>, branchFlag(opts.BranchDelete), branchName, <<>>)
        deleted == GitBranchDelete(removed.repo, brCmd)
        outcome == branchDeleteResult(deleted.ok, target, branchName, brCmd)
    IN  IF listed.err # "nil"
        THEN Res(R, listed.err, GitError(ListCmd), <<ListCmd>>, <<>>, 0)
        ELSE IF idx = 0
        THEN Res(R, "NotFound", <<T("worktree"), name, T("not found")>>, <<ListCmd>>, <<>>, 0)
        ELSE IF ~skipConfirm(opts) /\ read.err # "nil"
        THEN Res(R, "ReadError", <<T(read.err)>>, <<ListCmd>>, prompt, reads)
        ELSE IF ~skipConfirm(opts) /\ ~isAffirmative(read.text)
        THEN Res(R, "nil", <<>>, <<ListCmd>>, Append(prompt, T("Aborted")), reads)
        ELSE IF ~removed.ok
        THEN Res(R, "ExternalCommand", GitError(rmCmd), <<ListCmd, rmCmd>>, prompt, reads)
        ELSE IF opts.BranchDelete = BranchDeleteNone
        THEN Res(removed.repo, "nil", <<>>, <<ListCmd, rmCmd>>, outRemoved, reads)
        ELSE IF skipBranchDelete(branchName)
        THEN Res(removed.repo, "nil", <<>>, <<ListCmd, rmCmd>>,
                 Append(outRemoved, T("Skipped branch deletion")), reads)
        ELSE IF ~deleted.ok
        THEN Res(removed.repo, outcome.ret, outcome.msg,
                 <<ListCmd, rmCmd, brCmd>>, outRemoved, reads)
        ELSE Res(deleted.repo, outcome.ret, outcome.msg, <<ListCmd, rmCmd, brCmd>>,
                 outRemoved \o << T("Deleted branch:"), branchName >>, reads)

(***************************************************************************)
(* ListWorktrees and ShowWorktree (src/worktree.go:163-221, 359-448)       *)
(***************************************************************************)

ListFormats == { "table", "plain", "json", "xml" }

\* The --format and --field options of one show call.
ShowOptions(format, field) == [format |-> format, field |-> field]

\* Values of --field handed to show: the five fields and one that is none.
ShowFields == { "name", "branch", "path", "head", "created", "size" }

\* A call without --field in each format, each field with a format show
\* does not know, and two fields with the format left empty.
ShowInputs ==
    { ShowOptions(format, "") : format \in {"pretty", "json", "xml"} }
        \cup { ShowOptions("xml", field) : field \in ShowFields }
        \cup { ShowOptions("", "path"), ShowOptions("", "created") }

\* formatTimeAgo: "unknown" for the zero time, else a relative time.
formatTimeAgo(created) == IF created = "zero" THEN T("unknown") ELSE T("just now")

\* time.Time.Format of the layout: the zero time prints as year 1.
FormatTime(created, layout) ==
    IF created = "zero" THEN T("0001-01-01 " \o layout) ELSE T("mtime " \o layout)

RECURSIVE printRows(_, _, _)
printRows(worktrees, i, style) ==
    IF i > Len(worktrees) THEN <<>>
    ELSE (IF style = "table"
          THEN << worktrees[i].Name, worktrees[i].Branch, formatTimeAgo(worktrees[i].Created), T("\n") >>
          ELSE << worktrees[i].Name, worktrees[i].Branch, worktrees[i].Path, T("\n") >>)
         \o printRows(worktrees, i + 1, style)

printTableFormat(worktrees) ==
    IF Len(worktrees) = 0 THEN <<>>
    ELSE << T("NAME"), T("BRANCH"), T("CREATED"), T("\n") >> \o printRows(worktrees, 1, "table")

printPlainFormat(worktrees) == printRows(worktrees, 1, "plain")

\* The minimum widths of the NAME and BRANCH columns in "%-20s %-30s %-15s\n".
NameWidth == 20

BranchWidth == 30

\* The number of characters `%-<width>s` prints for a string of len
\* characters: the string padded on the right to width, never cut.
padRight(len, width) == IF len < width THEN width ELSE len

\* The offsets in one printed line at which the second and the third value
\* start, for a first value of nameLen and a second of branchLen characters.
tableLine(nameLen, branchLen) ==
    [branch |-> padRight(nameLen, NameWidth) + 1,
     created |-> padRight(nameLen, NameWidth) + 1 + padRight(branchLen, BranchWidth) + 1]

\* The lines printTableFormat prints for rows of the given name and branch
\* lengths: nothing for no row, else the header ("NAME", "BRANCH") and one
\* line per row.
tableLines(rows) ==
    IF Len(rows) = 0 THEN <<>>
    ELSE << tableLine(4, 6) >> \o [i \in 1..Len(rows) |-> tableLine(rows[i].name, rows[i].branch)]

ListWorktreesRun(R, format) ==
    LET listed == getWorktrees(R)
    IN  IF listed.err # "nil"
        THEN Res(R, listed.err, GitError(ListCmd), <<ListCmd>>, <<>>, 0)
        ELSE IF format = "table"
        THEN Res(R, "nil", <<>>, <<ListCmd>>, printTableFormat(listed.worktrees), 0)
        ELSE IF format = "plain"
        THEN Res(R, "nil", <<>>, <<ListCmd>>, printPlainFormat(listed.worktrees), 0)
        ELSE IF format = "json"
        THEN Res(R, "nil", <<>>, <<ListCmd>>, <<T("json")>>, 0)
        ELSE Res(R, "InvalidArgument", <<T("unknown format:"), T(format)>>, <<ListCmd>>, <<>>, 0)

printPrettyFormat(wt) ==
    << T("Name:"), wt.Name, T("Branch:"), wt.Branch, T("Path:"), wt.Path,
       T("HEAD:"), wt.HEAD, T("Created:"), FormatTime(wt.Created, "2006-01-02 15:04:05") >>

\* printField printing the name for the field "path".
printField_name(wt, field) ==
    IF field \in {"name", "path"} THEN [err |-> "nil", out |-> <<wt.Name>>]
    ELSE IF field = "branch" THEN [err |-> "nil", out |-> <<wt.Branch>>]
    ELSE IF field = "head" THEN [err |-> "nil", out |-> <<wt.HEAD>>]
    ELSE IF field = "created"
    THEN [err |-> "nil", out |-> <<FormatTime(wt.Created, "RFC3339")>>]
    ELSE [err |-> "InvalidArgument", out |-> <<>>]

\* printField: the value printed, or the unknown-field error.
printField(wt, field) ==
    IF field = "name" THEN [err |-> "nil", out |-> <<wt.Name>>]
    ELSE IF field = "branch" THEN [err |-> "nil", out |-> <<wt.Branch>>]
    ELSE IF field = "path" THEN [err |-> "nil", out |-> <<wt.Path>>]
    ELSE IF field = "head" THEN [err |-> "nil", out |-> <<wt.HEAD>>]
    ELSE IF field = "created"
    THEN [err |-> "nil", out |-> <<FormatTime(wt.Created, "RFC3339")>>]
    ELSE [err |-> "InvalidArgument", out |-> <<>>]

ShowWorktreeRun(R, name, format, field) ==
    LET listed == getWorktrees(R)
        idx == findByName(listed.worktrees, name)
        target == listed.worktrees[idx]
        printed == printField(target, field)
    IN  IF listed.err # "nil"
        THEN Res(R, listed.err, GitError(ListCmd), <<ListCmd>>, <<>>, 0)
        ELSE IF idx = 0
        THEN Res(R, "NotFound", <<T("worktree"), name, T("not found")>>, <<ListCmd>>, <<>>, 0)
        ELSE IF field # ""
        THEN Res(R, printed.err,
                 IF printed.err = "nil" THEN <<>> ELSE <<T("unknown field:"), T(field)>>,
                 <<ListCmd>>, printed.out, 0)
        ELSE IF format = "pretty"
        THEN Res(R, "nil", <<>>, <<ListCmd>>, printPrettyFormat(target), 0)
        ELSE IF format = "json"
        THEN Res(R, "nil", <<>>, <<ListCmd>>, <<T("json"), target.Name>>, 0)
        ELSE Res(R, "InvalidArgument", <<T("unknown format:"), T(format)>>, <<ListCmd>>, <<>>, 0)

(***************************************************************************)
(* handleAddWorktree (src/mcp.go:57-80)                                    *)
(***************************************************************************)

handleAddWorktreeRun(R, name, branch, checkout, base) ==
    LET inner == AddWorktreeRun(R, name, branch, checkout, base)
        listed == getWorktrees(inner.repo)
        idx == findByName(listed.worktrees, name)
        cmds == Append(inner.cmds, ListCmd)
    IN  IF inner.ret # "nil"
        THEN Res(inner.repo, inner.ret, <<T("failed to add worktree:")>> \o inner.msg,
                 inner.cmds, inner.out, inner.reads)
        ELSE IF listed.err # "nil"
        THEN Res(inner.repo, listed.err, <<T("failed to get worktree info:")>> \o GitError(ListCmd),
                 cmds, inner.out, inner.reads)
        ELSE IF idx # 0
        THEN Res(inner.repo, "nil", <<>>, cmds, inner.out, inner.reads)
        ELSE Res(inner.repo, "Internal", <<T("worktree created but not found")>>,
                 cmds, inner.out, inner.reads)

(***************************************************************************)
(* handleListWorktrees, handleShowWorktree, handleRemoveWorktree           *)
(* (src/mcp.go:82-139)                                                     *)
(***************************************************************************)

\* What a tool handler did, with the Removed field of its output (FALSE for
\* the handlers whose output has none); msg is the error text when ret is
\* not "nil", else the Message field of the output.
McpRes(res, ret, msg, removed) ==
    [repo |-> res.repo, ret |-> ret, msg |-> msg, cmds |-> res.cmds, out |-> res.out,
     reads |-> res.reads, removed |-> removed]

\* The handler prints nothing: the records go into ListWorktreesOutput.
handleListWorktreesRun(R) ==
    LET listed == getWorktrees(R)
        res == Res(R, listed.err, <<>>, <<ListCmd>>, <<>>, 0)
    IN  IF listed.err # "nil"
        THEN McpRes(res, listed.err, <<T("failed to list worktrees:")>> \o GitError(ListCmd), FALSE)
        ELSE McpRes(res, "nil", <<>>, FALSE)

handleShowWorktreeRun(R, name) ==
    LET listed == getWorktrees(R)
        res == Res(R, listed.err, <<>>, <<ListCmd>>, <<>>, 0)
    IN  IF listed.err # "nil"
        THEN McpRes(res, listed.err, <<T("failed to get worktrees:")>> \o GitError(ListCmd), FALSE)
        ELSE IF findByName(listed.worktrees, name) # 0
        THEN McpRes(res, "nil", <<>>, FALSE)
        ELSE McpRes(res, "NotFound", <<T("worktree"), name, T("not found")>>, FALSE)

\* The RemoveOptions the handler builds from its input (lines 114-120).
mcpRemoveOptions(force, deleteBranch, deleteBranchForce) ==
    RemoveOptions(force, IF deleteBranch THEN BranchDeleteSafe
                         ELSE IF deleteBranchForce THEN BranchDeleteForce
                         ELSE BranchDeleteNone)

\* The handler never returns an error; RemoveWorktree runs in the server
\* process, so its prompt goes to the process's standard output and its
\* answer is read from the process's standard input.
handleRemoveWorktreeRun(R, name, force, deleteBranch, deleteBranchForce, stdin) ==
    LET opts == mcpRemoveOptions(force, deleteBranch, deleteBranchForce)
        inner == RemoveWorktreeRun(R, name, opts, stdin)
    IN  IF deleteBranch /\ deleteBranchForce
        THEN McpRes(Res(R, "nil", <<>>, <<>>, <<>>, 0), "nil",
                    <<T("Cannot combine deleteBranch and deleteBranchForce options")>>, FALSE)
        ELSE IF inner.ret # "nil"
        THEN McpRes(inner, "nil", <<T("Failed to remove worktree:")>> \o inner.msg, FALSE)
        ELSE McpRes(inner, "nil",
                    << T("Removed worktree:"), name >>
                        \o (IF opts.BranchDelete # BranchDeleteNone
                            THEN <<T("(branch deleted)")>> ELSE <<>>),
                    TRUE)

(***************************************************************************)
(* State machine                                                           *)
(***************************************************************************)

\* Most lines of one porcelain text handed to the parser.
MaxLines == 4

\* The lines of a porcelain text, each trimmed and split at its first space:
\* a blank line, `worktree` with and without a path, HEAD, branch, detached
\* and a key the parser does not know.
PorcelainLines ==
    { <<>>, <<"worktree">>, <<"worktree", <<"repo">>>>, <<"worktree", <<"repo", "w">>>>,
      <<"HEAD", <<1>>>>, <<"branch", <<"refs", "heads", "a">>>>, <<"detached">>,
      <<"prunable", <<"gone">>>> }

LineSeqs == UNION { [1..n -> PorcelainLines] : n \in 0..MaxLines }

\* Values of worktreeRoot in the configuration: none, white space, relative
\* and absolute paths, with and without "..".
WorktreeRoots ==
    { <<>>, <<" ", " ">>, <<"custom", "worktrees">>, <<"..", "wt">>,
      <<"/", "tmp", "wt">>, <<" ", "/", "tmp", "wt", " ">>, <<"/", "tmp", "x", "..", "wt">> }

\* Directories wtm runs in: the repository root, a directory below it and a
\* linked worktree.
Cwds ==
    { <<"/">> \o RepoRoot, <<"/">> \o RepoRoot \o <<"sub">>,
      <<"/">> \o RepoRoot \o defaultWorktreeRoot \o <<"a">> }

\* Most rows of one table.
MaxRows == 2

\* Lengths of worktree names and of branch names: shorter than the column
\* or as wide, and longer (the 30 and 40 characters of
\* TestPrintTableFormatAlignsColumns among them).
NameLens == { 4, 21, 30 }

BranchLens == { 6, 30, 40 }

TableRows ==
    UNION { [1..n -> [name : NameLens, branch : BranchLens]] : n \in 0..MaxRows }

\* One call of a function on its own: the input, and the result once done.
PureCall(fn, lines, root, cwd) ==
    [fn |-> fn, lines |-> lines, root |-> root, cwd |-> cwd, rows |-> <<>>,
     records |-> <<>>, base |-> <<>>, layout |-> <<>>, done |-> FALSE]

NoPure == PureCall("none", <<>>, <<>>, <<>>)

PureInputs ==
    { PureCall("getWorktrees", lines, <<>>, <<>>) : lines \in LineSeqs }
        \cup { PureCall("resolveWorktreeBase", <<>>, root, cwd) :
                  root \in WorktreeRoots, cwd \in Cwds }
        \cup { [PureCall("printTableFormat", <<>>, <<>>, <<>>) EXCEPT !.rows = rows] :
                  rows \in TableRows }

(***************************************************************************)
(* Configuration (src/config.go)                                           *)
(***************************************************************************)

\* Most calls of loadConfig between two calls of resetConfigCache.
MaxCalls == 2

\* The path WTM_CONFIG_FILE names when it is set, and the values of
\* XDG_CONFIG_HOME ("" is unset).
ConfigFileOverrides == { <<>>, <<"alt.toml">> }

XdgConfigHomes == { "", "xdg" }

\* configFilePath: the trimmed WTM_CONFIG_FILE when it is not empty, else
\* wtm/config.toml under XDG_CONFIG_HOME or under <home>/.config.
configFilePath(env) ==
    IF TrimSpace(env.file) # <<>> THEN TrimSpace(env.file)[1]
    ELSE (IF env.xdg = "" THEN "home/.config" ELSE env.xdg) \o "/wtm/config.toml"

ConfigPaths ==
    { configFilePath([file |-> f, xdg |-> x]) : f \in ConfigFileOverrides, x \in XdgConfigHomes }

\* What a configuration file holds: nothing (the file does not exist), text
\* that is not TOML, or a worktreeRoot setting.
FileContent(kind, root) == [kind |-> kind, root |-> root]

FileContents ==
    { FileContent("absent", <<>>), FileContent("invalid", <<>>),
      FileContent("toml", <<"custom", "worktrees">>) }

\* os.ReadFile and toml.Unmarshal of the file (lines 35-46): a file that does
\* not exist leaves the zero Config and no error.
readConfig(content) ==
    IF content.kind = "absent" THEN Loaded(Config(<<>>), "nil")
    ELSE IF content.kind = "invalid" THEN Loaded(Config(<<>>), "Parse")
    ELSE Loaded(Config(content.root), "nil")

\* No loadConfig result yet.
NoLoaded == Loaded(Config(<<>>), "none")

\* The process before its first call: configOnce not done, cachedConfig and
\* configErr zero; no configuration file, no environment variable set.
\* reads counts os.ReadFile, calls counts loadConfig, first and ret are the
\* first and the last result of loadConfig, seen is the kind of file
\* content the read found, all since the last resetConfigCache.
ProcStart ==
    [env |-> [file |-> <<>>, xdg |-> ""],
     files |-> [p \in ConfigPaths |-> FileContent("absent", <<>>)],
     once |-> FALSE, cachedConfig |-> Config(<<>>), configErr |-> "nil",
     reads |-> 0, calls |-> 0, first |-> NoLoaded, ret |-> NoLoaded, seen |-> "none",
     base |-> <<>>, baseErr |-> "nil", listed |-> <<>>, op |-> "none"]

\* loadConfig without configOnce: the file is read on every call.
loadConfig_noOnce(p) ==
    LET content == p.files[configFilePath(p.env)]
        r == readConfig(content)
    IN  [p EXCEPT !.once = TRUE, !.cachedConfig = r.cfg, !.configErr = r.err,
                  !.reads = @ + 1, !.seen = content.kind, !.calls = @ + 1, !.ret = r,
                  !.first = IF p.calls = 0 THEN r ELSE @]

\* loadConfig: configOnce.Do reads the file on the first call; every call
\* returns cachedConfig and configErr.
loadConfig(p) ==
    LET content == p.files[configFilePath(p.env)]
        r == readConfig(content)
    IN  IF p.once
        THEN [p EXCEPT !.calls = @ + 1, !.ret = Loaded(p.cachedConfig, p.configErr),
                       !.first = IF p.calls = 0 THEN Loaded(p.cachedConfig, p.configErr) ELSE @]
        ELSE [p EXCEPT !.once = TRUE, !.cachedConfig = r.cfg, !.configErr = r.err,
                       !.reads = @ + 1, !.seen = content.kind, !.calls = @ + 1, !.ret = r,
                       !.first = IF p.calls = 0 THEN r ELSE @]

\* Most changes other processes make to the repository while one call of
\* RemoveWorktree runs.
MaxExternal == 2

\* One call of RemoveWorktree taken step by step: the statement it is at, its
\* arguments, the records getWorktrees returned, the record found, the git
\* commands issued so far with their outcome, the error returned, and the
\* number of changes others made to the repository since the call started.
RmIdle ==
    [pc |-> "idle", name |-> <<>>, opts |-> RemoveOptions(FALSE, BranchDeleteNone),
     stdin |-> <<>>, listed |-> <<>>, target |-> ZeroWorktree, cmds |-> <<>>,
     ret |-> "nil", external |-> 0]

\* A git command that was run, and whether it succeeded.
Ran(c, ok) == [cmd |-> c, ok |-> ok]

\* Names the callers pass: the input names and the main worktree's name.
NameArgs == Names \cup { Base(RepoRoot) }

NoArgs ==
    [name |-> <<>>, branch |-> <<>>, checkout |-> <<>>, base |-> <<>>,
     opts |-> RemoveOptions(FALSE, BranchDeleteNone), stdin |-> <<>>,
     format |-> "", field |-> "", deleteBranch |-> FALSE, deleteBranchForce |-> FALSE]

\* The record of the last call: its arguments, its result, the result of the
\* AddWorktree or RemoveWorktree call a handler wrapped ("-" for none), the
\* Removed field of a handler's output and the repository before the call.
Called(op, args, res, inner, pre) ==
    [op |-> op, args |-> args, ret |-> res.ret, msg |-> res.msg, cmds |-> res.cmds,
     out |-> res.out, reads |-> res.reads, inner |-> inner, pre |-> pre,
     removed |-> IF "removed" \in DOMAIN res THEN res.removed ELSE FALSE]

NoCall == Called("none", NoArgs, Res(<<>>, "nil", <<>>, <<>>, <<>>, 0), "-", <<>>)

\* No call is in progress and no result waits to be taken.
Idle == last.op = "none"

Install(R) ==
    /\ Idle
    /\ gitWorktrees' = R.wts
    /\ gitBranches' = R.branches
    /\ dirs' = R.dirs
    /\ cwdInRepo' = R.inRepo
    /\ UNCHANGED <<pure, proc, rm>>

\* A repository with one commit and only the main worktree; no call made.
RepoInit ==
    /\ gitWorktrees = << GitEntry(RepoRoot, 0, MainBranch) >>
    /\ gitBranches = [b \in {MainBranch} |-> 0]
    /\ dirs = {RepoRoot}
    /\ cwdInRepo = TRUE
    /\ last = NoCall

Init ==
    /\ RepoInit
    /\ pure = NoPure
    /\ proc = ProcStart
    /\ rm = RmIdle

AddWorktree ==
    \E name \in NameArgs, o \in AddInputs :
        LET res == AddWorktreeRun(Repo, name, o.branch, o.checkout, o.base)
        IN  /\ Install(res.repo)
            /\ last' = Called("AddWorktree",
                              [NoArgs EXCEPT !.name = name, !.branch = o.branch,
                                             !.checkout = o.checkout, !.base = o.base],
                              res, "-", Repo)

handleAddWorktree ==
    \E name \in NameArgs, o \in McpAddInputs :
        LET res == handleAddWorktreeRun(Repo, name, o.branch, o.checkout, o.base)
        IN  /\ Install(res.repo)
            /\ last' = Called("handleAddWorktree",
                              [NoArgs EXCEPT !.name = name, !.branch = o.branch,
                                             !.checkout = o.checkout, !.base = o.base],
                              res, AddWorktreeRun(Repo, name, o.branch, o.checkout, o.base).ret,
                              Repo)

handleListWorktrees ==
    LET res == handleListWorktreesRun(Repo)
    IN  /\ Install(res.repo)
        /\ last' = Called("handleListWorktrees", NoArgs, res, "-", Repo)

handleShowWorktree ==
    \E name \in NameArgs :
        LET res == handleShowWorktreeRun(Repo, name)
        IN  /\ Install(res.repo)
            /\ last' = Called("handleShowWorktree", [NoArgs EXCEPT !.name = name], res, "-", Repo)

\* stdin is what the server's standard input holds when the handler runs.
\* With force set, or with both deletion options set, it plays no part and
\* is left empty; the closed stream is tried without a deletion option.
handleRemoveWorktree ==
    \E name \in NameArgs, force \in BOOLEAN, deleteBranch \in BOOLEAN,
       deleteBranchForce \in BOOLEAN, stdin \in McpStdinInputs :
        LET res == handleRemoveWorktreeRun(Repo, name, force, deleteBranch,
                                           deleteBranchForce, stdin)
            opts == mcpRemoveOptions(force, deleteBranch, deleteBranchForce)
        IN  /\ force => stdin = <<>>
            /\ (deleteBranch /\ deleteBranchForce) => stdin = <<>>
            /\ (~force /\ (deleteBranch \/ deleteBranchForce)) => stdin # <<>>
            /\ Install(res.repo)
            /\ last' = Called("handleRemoveWorktree",
                              [NoArgs EXCEPT !.name = name, !.opts = opts, !.stdin = stdin,
                                             !.deleteBranch = deleteBranch,
                                             !.deleteBranchForce = deleteBranchForce],
                              res,
                              IF deleteBranch /\ deleteBranchForce THEN "-"
                              ELSE RemoveWorktreeRun(Repo, name, opts, stdin).ret,
                              Repo)

\* With Force set the pending standard input plays no part; it is left
\* empty.  A call that asks for a branch deletion is answered with "y" or
\* "n"; the other answers are tried without a branch deletion.
RemoveWorktree ==
    \E name \in NameArgs, force \in BOOLEAN, mode \in BranchDeleteModes,
       stdin \in StdinInputs \cup {<<>>} :
        LET opts == RemoveOptions(force, mode)
            res == RemoveWorktreeRun(Repo, name, opts, stdin)
        IN  /\ force <=> stdin = <<>>
            /\ (~force /\ mode # BranchDeleteNone) => stdin \in ShortStdinInputs
            /\ Install(res.repo)
            /\ last' = Called("RemoveWorktree",
                              [NoArgs EXCEPT !.name = name, !.opts = opts, !.stdin = stdin],
                              res, "-", Repo)

ListWorktrees ==
    \E format \in ListFormats :
        LET res == ListWorktreesRun(Repo, format)
        IN  /\ Install(res.repo)
            /\ last' = Called("ListWorktrees", [NoArgs EXCEPT !.format = format], res, "-", Repo)

ShowWorktree ==
    \E name \in NameArgs, o \in ShowInputs :
        LET res == ShowWorktreeRun(Repo, name, o.format, o.field)
        IN  /\ Install(res.repo)
            /\ last' = Called("ShowWorktree",
                              [NoArgs EXCEPT !.name = name, !.format = o.format, !.field = o.field],
                              res, "-", Repo)

\* The caller takes the result of the call that ended; every wtm command is
\* one call of one operation, after which the process is done.
Return ==
    /\ ~Idle
    /\ last' = NoCall
    /\ UNCHANGED <<gitWorktrees, gitBranches, dirs, cwdInRepo, pure, proc, rm>>

\* The commits the branches hold on top of the initial commit.
RECURSIVE Commits(_)
Commits(branches) ==
    IF DOMAIN branches = {} THEN 0
    ELSE LET b == CHOOSE x \in DOMAIN branches : TRUE
         IN  branches[b] + Commits(Restrict(branches, DOMAIN branches \ {b}))

\* The user commits in a linked worktree that is on a branch: the branch
\* then holds a commit that is not merged into the main worktree's HEAD.
CommitInWorktree ==
    \E i \in 2..Len(gitWorktrees) :
        /\ Idle
        /\ gitWorktrees[i].path \in dirs
        /\ gitWorktrees[i].branch # <<>>
        /\ Commits(gitBranches) < MaxCommits
        /\ gitWorktrees' = [gitWorktrees EXCEPT ![i].head = @ + 1]
        /\ gitBranches' = [gitBranches EXCEPT ![gitWorktrees[i].branch] = @ + 1]
        /\ last' = NoCall
        /\ UNCHANGED <<dirs, cwdInRepo, pure, proc, rm>>

\* The user deletes the directory of a linked worktree; git keeps listing
\* the worktree until it is pruned or removed.
DeleteWorktreeDir ==
    \E i \in 2..Len(gitWorktrees) :
        /\ Idle
        /\ gitWorktrees[i].path \in dirs
        /\ dirs' = dirs \ {gitWorktrees[i].path}
        /\ last' = NoCall
        /\ UNCHANGED <<gitWorktrees, gitBranches, cwdInRepo, pure, proc, rm>>

\* The user changes directory out of, or back into, the repository.
Chdir ==
    /\ Idle
    /\ cwdInRepo' = ~cwdInRepo
    /\ last' = NoCall
    /\ UNCHANGED <<gitWorktrees, gitBranches, dirs, pure, proc, rm>>

Next ==
    \/ AddWorktree
    \/ handleAddWorktree
    \/ handleListWorktrees
    \/ handleShowWorktree
    \/ handleRemoveWorktree
    \/ RemoveWorktree
    \/ ListWorktrees
    \/ ShowWorktree
    \/ Return
    \/ CommitInWorktree
    \/ DeleteWorktreeDir
    \/ Chdir

Spec == Init /\ [][Next]_vars

(***************************************************************************)
(* One long-lived process (the MCP server, or a test binary) and its       *)
(* configuration cache                                                     *)
(***************************************************************************)

LoadConfig ==
    /\ proc.calls < MaxCalls
    /\ proc' = [loadConfig(proc) EXCEPT !.op = "loadConfig"]
    /\ UNCHANGED <<gitWorktrees, gitBranches, dirs, cwdInRepo, last, pure, rm>>

resetConfigCache ==
    /\ proc' = [proc EXCEPT !.once = FALSE, !.cachedConfig = Config(<<>>), !.configErr = "nil",
                            !.reads = 0, !.calls = 0, !.first = NoLoaded, !.ret = NoLoaded,
                            !.seen = "none", !.op = "resetConfigCache"]
    /\ UNCHANGED <<gitWorktrees, gitBranches, dirs, cwdInRepo, last, pure, rm>>

\* The user writes, replaces or deletes a configuration file.
WriteConfigFile ==
    \E path \in ConfigPaths, content \in FileContents :
        /\ proc.files[path] # content
        /\ proc' = [proc EXCEPT !.files[path] = content, !.op = "none"]
        /\ UNCHANGED <<gitWorktrees, gitBranches, dirs, cwdInRepo, last, pure, rm>>

\* WTM_CONFIG_FILE or XDG_CONFIG_HOME is changed (os.Setenv, t.Setenv).
Setenv ==
    \E file \in ConfigFileOverrides, xdg \in XdgConfigHomes :
        /\ proc.env # [file |-> file, xdg |-> xdg]
        /\ proc' = [proc EXCEPT !.env = [file |-> file, xdg |-> xdg], !.op = "none"]
        /\ UNCHANGED <<gitWorktrees, gitBranches, dirs, cwdInRepo, last, pure, rm>>

\* resolveWorktreeBase called in the process (by AddWorktree, line 107).
ResolveInProcess ==
    LET loaded == loadConfig(proc)
        res == resolveWorktreeBaseFrom(loaded.ret, <<"/">> \o RepoRoot)
    IN  /\ proc.calls < MaxCalls
        /\ proc' = [loaded EXCEPT !.base = res.base, !.baseErr = res.err,
                                  !.op = "resolveWorktreeBase"]
        /\ UNCHANGED <<gitWorktrees, gitBranches, dirs, cwdInRepo, last, pure, rm>>

\* getWorktrees called in the process (by every operation).
ListInProcess ==
    /\ proc' = [proc EXCEPT !.listed = getWorktrees(Repo).worktrees, !.op = "getWorktrees"]
    /\ UNCHANGED <<gitWorktrees, gitBranches, dirs, cwdInRepo, last, pure, rm>>

\* Another wtm process adds the worktree "a" or removes it with its branch.
OtherProcess ==
    \E add \in BOOLEAN :
        LET res == IF add THEN AddWorktreeRun(Repo, <<"a">>, <<>>, <<>>, <<>>)
                   ELSE RemoveWorktreeRun(Repo, <<"a">>,
                                          RemoveOptions(TRUE, BranchDeleteForce), <<>>)
        IN  /\ res.ret = "nil"
            /\ gitWorktrees' = res.repo.wts
            /\ gitBranches' = res.repo.branches
            /\ dirs' = res.repo.dirs
            /\ proc' = [proc EXCEPT !.op = "none"]
            /\ UNCHANGED <<cwdInRepo, last, pure, rm>>

InitProc ==
    /\ RepoInit
    /\ pure = NoPure
    /\ proc = ProcStart
    /\ rm = RmIdle

NextProc ==
    \/ LoadConfig
    \/ resetConfigCache
    \/ WriteConfigFile
    \/ Setenv
    \/ ResolveInProcess
    \/ ListInProcess
    \/ OtherProcess

SpecProc == InitProc /\ [][NextProc]_vars

(***************************************************************************)
(* The parser and the path resolver called on their own                    *)
(***************************************************************************)

InitPure ==
    /\ RepoInit
    /\ pure \in PureInputs
    /\ proc = ProcStart
    /\ rm = RmIdle

\* The loop of getWorktrees over the lines of one porcelain text.
ParsePorcelain ==
    /\ pure.fn = "getWorktrees"
    /\ ~pure.done
    /\ pure' = [pure EXCEPT !.records = ParseLines(pure.lines, 1, <<>>, ZeroWorktree),
                            !.done = TRUE]
    /\ UNCHANGED <<gitWorktrees, gitBranches, dirs, cwdInRepo, last, proc, rm>>

\* resolveWorktreeBase for one configured worktreeRoot in one directory.
ResolveBase ==
    /\ pure.fn = "resolveWorktreeBase"
    /\ ~pure.done
    /\ pure' = [pure EXCEPT
                  !.base = resolveWorktreeBaseFrom(Loaded(Config(pure.root), "nil"), pure.cwd).base,
                  !.done = TRUE]
    /\ UNCHANGED <<gitWorktrees, gitBranches, dirs, cwdInRepo, last, proc, rm>>

\* printTableFormat for worktrees with names and branches of some lengths.
PrintTable ==
    /\ pure.fn = "printTableFormat"
    /\ ~pure.done
    /\ pure' = [pure EXCEPT !.layout = tableLines(pure.rows), !.done = TRUE]
    /\ UNCHANGED <<gitWorktrees, gitBranches, dirs, cwdInRepo, last, proc, rm>>

NextPure ==
    \/ ParsePorcelain
    \/ ResolveBase
    \/ PrintTable

SpecPure == InitPure /\ [][NextPure]_vars

(***************************************************************************)
(* RemoveWorktree step by step, in a repository that other processes       *)
(* change (src/worktree.go:224-296)                                        *)
(***************************************************************************)

\* Lines 226-240: getWorktrees and the search for the name.
rmEnumerate ==
    \E name \in NameArgs, force \in BOOLEAN, mode \in BranchDeleteModes,
       stdin \in StdinInputs \cup {<<>>} :
        LET listed == getWorktrees(Repo)
            idx == findByName(listed.worktrees, name)
            call == [RmIdle EXCEPT !.name = name, !.opts = RemoveOptions(force, mode),
                                   !.stdin = stdin, !.listed = listed.worktrees,
                                   !.cmds = << Ran(ListCmd, listed.err = "nil") >>]
        IN  /\ rm.pc = "idle"
            /\ force <=> stdin = <<>>
            /\ rm' = IF listed.err # "nil" THEN [call EXCEPT !.pc = "done", !.ret = listed.err]
                     ELSE IF idx = 0 THEN [call EXCEPT !.pc = "done", !.ret = "NotFound"]
                     ELSE [call EXCEPT !.pc = "found", !.target = listed.worktrees[idx]]
            /\ UNCHANGED <<gitWorktrees, gitBranches, dirs, cwdInRepo, last, pure, proc>>

\* Lines 243-267: the confirmation step.
rmConfirm ==
    LET read == ReadString(rm.stdin)
    IN  /\ rm.pc = "found"
        /\ rm' = IF skipConfirm(rm.opts) THEN [rm EXCEPT !.pc = "confirmed"]
                 ELSE IF read.err # "nil" THEN [rm EXCEPT !.pc = "done", !.ret = "ReadError"]
                 ELSE IF ~isAffirmative(read.text) THEN [rm EXCEPT !.pc = "done"]
                 ELSE [rm EXCEPT !.pc = "confirmed"]
        /\ UNCHANGED <<gitWorktrees, gitBranches, dirs, cwdInRepo, last, pure, proc>>

\* Lines 269-273: `git worktree remove --force`.
rmWorktreeRemove ==
    LET c == removeCmd(rm.target)
        removed == GitWorktreeRemove(Repo, c)
    IN  /\ rm.pc = "confirmed"
        /\ rm' = [rm EXCEPT !.cmds = Append(@, Ran(c, removed.ok)),
                            !.pc = IF removed.ok THEN "removed" ELSE "done",
                            !.ret = IF removed.ok THEN @ ELSE "ExternalCommand"]
        /\ gitWorktrees' = removed.repo.wts
        /\ gitBranches' = removed.repo.branches
        /\ dirs' = removed.repo.dirs
        /\ UNCHANGED <<cwdInRepo, last, pure, proc>>

\* Lines 275-295: the branch deletion, when one is asked for and the found
\* record has a branch.
rmBranchDelete ==
    LET branchName == rm.target.Branch
        c == Cmd("branch", <<>>, branchFlag(rm.opts.BranchDelete), branchName, <<>>)
        deleted == GitBranchDelete(Repo, c)
        skip == rm.opts.BranchDelete = BranchDeleteNone \/ skipBranchDelete(branchName)
    IN  /\ rm.pc = "removed"
        /\ rm' = IF skip THEN [rm EXCEPT !.pc = "done"]
                 ELSE [rm EXCEPT !.cmds = Append(@, Ran(c, deleted.ok)), !.pc = "done",
                                 !.ret = branchDeleteResult(deleted.ok, rm.target, branchName, c).ret]
        /\ gitBranches' = IF skip THEN gitBranches ELSE deleted.repo.branches
        /\ UNCHANGED <<gitWorktrees, dirs, cwdInRepo, last, pure, proc>>

\* The caller takes the result.
rmReturn ==
    /\ rm.pc = "done"
    /\ rm' = RmIdle
    /\ UNCHANGED <<gitWorktrees, gitBranches, dirs, cwdInRepo, last, pure, proc>>

\* Another process or the user changes the repository, also between two
\* steps of a call: the worktree "a" is added (on a new branch, or detached
\* at a tag) or removed, a branch is deleted, a commit is made in a linked
\* worktree.
ExternalChange ==
    \E change \in {"add", "detached", "remove", "branch", "commit"} :
        LET res == IF change = "add" THEN AddWorktreeRun(Repo, <<"a">>, <<>>, <<>>, <<>>)
                   ELSE IF change = "detached"
                   THEN AddWorktreeRun(Repo, <<"a">>, <<>>, <<"v1">>, <<>>)
                   ELSE RemoveWorktreeRun(Repo, <<"a">>,
                                          RemoveOptions(TRUE, BranchDeleteNone), <<>>)
            del == GitBranchDelete(Repo, Cmd("branch", <<>>, "-D", <<"a">>, <<>>))
            R == IF change \in {"add", "detached", "remove"} THEN res.repo
                 ELSE IF change = "branch" THEN del.repo
                 ELSE [Repo EXCEPT !.wts[2].head = @ + 1, !.branches[<<"a">>] = @ + 1]
        IN  /\ rm.pc = "idle" \/ rm.external < MaxExternal
            /\ change \in {"add", "detached", "remove"} => res.ret = "nil"
            /\ change = "branch" => del.ok
            /\ change = "commit" =>
                  (/\ Len(gitWorktrees) > 1
                   /\ gitWorktrees[2].branch = <<"a">>
                   /\ Commits(gitBranches) < MaxCommits)
            /\ R # Repo
            /\ gitWorktrees' = R.wts
            /\ gitBranches' = R.branches
            /\ dirs' = R.dirs
            /\ rm' = [rm EXCEPT !.external = IF rm.pc = "idle" THEN 0 ELSE @ + 1]
            /\ UNCHANGED <<cwdInRepo, last, pure, proc>>

InitRemove ==
    /\ RepoInit
    /\ pure = NoPure
    /\ proc = ProcStart
    /\ rm = RmIdle

NextRemove ==
    \/ rmEnumerate
    \/ rmConfirm
    \/ rmWorktreeRemove
    \/ rmBranchDelete
    \/ rmReturn
    \/ ExternalChange

SpecRemove == InitRemove /\ [][NextRemove]_vars

(***************************************************************************)
(* Properties                                                              *)
(***************************************************************************)

\* The records an enumeration returns now, and the ones it returned in the
\* repository the last call started from.
Enumerate == getWorktrees(Repo).worktrees

PreEnumerate == getWorktrees(last.pre).worktrees

NamedIn(worktrees, name) == { i \in 1..Len(worktrees) : worktrees[i].Name = name }

PathsIn(worktrees) == { worktrees[i].Path : i \in 1..Len(worktrees) }

Issued(verb) == { i \in 1..Len(last.cmds) : last.cmds[i].verb = verb }

RepoUnchanged ==
    /\ gitWorktrees = last.pre.wts
    /\ gitBranches = last.pre.branches
    /\ dirs = last.pre.dirs

\* The record RemoveWorktree or ShowWorktree found for its name argument.
PreTarget == PreEnumerate[findByName(PreEnumerate, last.args.name)]

Removing == last.op = "RemoveWorktree" /\ last.pre.inRepo /\ NamedIn(PreEnumerate, last.args.name) # {}

AddDefault ==
    /\ last.op = "AddWorktree"
    /\ last.args.branch = <<>>
    /\ last.args.checkout = <<>>

\* C1: after AddWorktree(name, "", "", base) returned without error, the
\* enumeration holds exactly one record named name, and its branch is name.
C1_AddThenEnumerate ==
    (AddDefault /\ last.ret = "nil") =>
        /\ Cardinality(NamedIn(Enumerate, last.args.name)) = 1
        /\ \A i \in NamedIn(Enumerate, last.args.name) : Enumerate[i].Branch = last.args.name

\* C2: AddWorktree of a name the enumeration already holds fails with the
\* duplicate-name error, issues no `git worktree add`, and leaves every record
\* of that name (and the repository) as it was.
C2_DuplicateRejected ==
    (last.op = "AddWorktree" /\ last.pre.inRepo /\ NamedIn(PreEnumerate, last.args.name) # {}) =>
        /\ last.ret = "DuplicateName"
        /\ Issued("worktree add") = {}
        /\ RepoUnchanged
        /\ \A i \in NamedIn(PreEnumerate, last.args.name) :
              \E j \in NamedIn(Enumerate, last.args.name) :
                  /\ Enumerate[j].Path = PreEnumerate[i].Path
                  /\ Enumerate[j].Branch = PreEnumerate[i].Branch

C2_Witness ==
    /\ last.op = "AddWorktree"
    /\ last.ret = "DuplicateName"
    /\ last.args.name \in Names
    /\ NamedIn(Enumerate, last.args.name) # {}

\* C3: after RemoveWorktree(name, {Force: true}) of a listed name returned
\* without error, the enumeration holds no record named name.
C3_RemovedNameAbsent ==
    (Removing /\ last.args.opts.Force /\ last.ret = "nil") =>
        NamedIn(Enumerate, last.args.name) = {}

\* The `git branch` command of the last RemoveWorktree ran, after the
\* worktree removal succeeded, and failed.
BranchDeleteFailed ==
    /\ Removing
    /\ Len(last.cmds) = 3
    /\ ~GitBranchDelete(GitWorktreeRemove(last.pre, last.cmds[2]).repo, last.cmds[3]).ok

\* C4: when the worktree removal succeeded and the branch deletion failed,
\* RemoveWorktree returns an error, the worktree is not in the enumeration and
\* the branch still exists.
C4_NoRollback ==
    BranchDeleteFailed =>
        /\ last.ret # "nil"
        /\ PreTarget.Path \notin PathsIn(Enumerate)
        /\ PreTarget.Path \notin dirs
        /\ PreTarget.Branch \in DOMAIN gitBranches

C4_Witness ==
    /\ BranchDeleteFailed
    /\ last.args.opts.BranchDelete = BranchDeleteSafe
    /\ gitBranches[PreTarget.Branch] > 0

SafeDeleteUnmerged ==
    /\ BranchDeleteFailed
    /\ last.args.opts.Force
    /\ last.args.opts.BranchDelete = BranchDeleteSafe
    /\ last.pre.branches[PreTarget.Branch] # HeadCommit(last.pre)

\* C5 as stated: the error of a safe branch deletion that failed on an
\* unmerged branch contains "removed" and "failed to delete branch".
C5_MessageSaysRemoved ==
    SafeDeleteUnmerged =>
        /\ Contains(last.msg, "removed")
        /\ Contains(last.msg, "failed to delete branch")

\* C5: the error of a safe branch deletion that failed on an unmerged branch
\* contains "deleted worktree" and "failed to delete branch".
C5_MessageSaysDeleted ==
    SafeDeleteUnmerged =>
        /\ Contains(last.msg, "deleted worktree")
        /\ Contains(last.msg, "failed to delete branch")

C5_Witness == SafeDeleteUnmerged /\ last.ret = "PartialFailure"

\* The last call was a forced RemoveWorktree, of a record on a branch, that
\* asked for a safe deletion of a merged branch or for a forced deletion.
RemoveWithBranch ==
    /\ Removing
    /\ last.args.opts.Force
    /\ PreTarget.Branch # <<>>
    /\ \/ /\ last.args.opts.BranchDelete = BranchDeleteSafe
          /\ PreTarget.Branch \in DOMAIN last.pre.branches
          /\ last.pre.branches[PreTarget.Branch] = HeadCommit(last.pre)
       \/ last.args.opts.BranchDelete = BranchDeleteForce

WorktreeAndBranchGone ==
    /\ last.ret = "nil"
    /\ PreTarget.Path \notin PathsIn(Enumerate)
    /\ PreTarget.Branch \notin DOMAIN gitBranches

\* C6 as stated: for any listed worktree on a branch, such a call returns
\* without error and leaves neither the worktree nor the branch.
C6_AnyWorktree == RemoveWithBranch => WorktreeAndBranchGone

\* C6: for a listed linked worktree (not the main one) on a branch, such a call
\* returns without error and leaves neither the worktree nor the branch.
C6_LinkedWorktree ==
    (RemoveWithBranch /\ PreTarget.Path # last.pre.wts[1].path) => WorktreeAndBranchGone

C6_Witness ==
    /\ RemoveWithBranch
    /\ PreTarget.Path # last.pre.wts[1].path
    /\ last.args.opts.BranchDelete = BranchDeleteForce
    /\ last.pre.branches[PreTarget.Branch] > 0
    /\ WorktreeAndBranchGone

\* The exact answers "y" and "yes" after lower-casing and trimming.
Affirmative(input) ==
    LET r == TrimSpace(ToLower(input)) IN r = <<"y">> \/ r = <<"y", "e", "s">>

Unconfirmed == Removing /\ ~last.args.opts.Force

NoRemoval ==
    /\ Issued("worktree remove --force") = {}
    /\ Issued("branch") = {}
    /\ RepoUnchanged

\* C7 as stated: without Force the removal proceeds only on "y" or "yes"; on
\* every other input nothing is issued or changed and the call returns nil.
C7_OtherInputIsNil ==
    Unconfirmed =>
        /\ Issued("worktree remove --force") # {} => Affirmative(last.args.stdin)
        /\ ~Affirmative(last.args.stdin) => (NoRemoval /\ last.ret = "nil")

\* C7: without Force the removal proceeds only on a line that reads "y" or
\* "yes"; on every other input nothing is issued or changed, and the call
\* returns nil when a whole line was read and the read error when the input
\* ended before a newline (then also for "y" and "yes").
C7_ConfirmationGate ==
    Unconfirmed =>
        LET read == ReadString(last.args.stdin) IN
        /\ Issued("worktree remove --force") # {} =>
              (read.err = "nil" /\ Affirmative(last.args.stdin))
        /\ (read.err = "nil" /\ ~Affirmative(last.args.stdin)) => (NoRemoval /\ last.ret = "nil")
        /\ read.err # "nil" => (NoRemoval /\ last.ret = "ReadError")

C7_Witness ==
    /\ Unconfirmed
    /\ last.args.stdin = <<"y", "e", "s", "s", "\n">>
    /\ last.ret = "nil"
    /\ PreTarget.Path # last.pre.wts[1].path
    /\ PreTarget.Path \in PathsIn(Enumerate)

\* The last call was a RemoveWorktree without Force that found its worktree,
\* called directly or by the handler of the wtm_remove tool.
Prompted ==
    \/ Unconfirmed
    \/ /\ last.op = "handleRemoveWorktree"
       /\ last.inner # "-"
       /\ last.pre.inRepo
       /\ NamedIn(PreEnumerate, last.args.name) # {}
       /\ ~last.args.opts.Force

\* C8: standard input is read only by the confirmation step: never by a
\* RemoveWorktree with Force, never by AddWorktree, ListWorktrees or
\* ShowWorktree, and at most once by a RemoveWorktree without Force that found
\* its worktree.
C8_StdinOnlyInConfirm ==
    /\ (last.op = "RemoveWorktree" /\ last.args.opts.Force) => last.reads = 0
    /\ last.op \in {"AddWorktree", "ListWorktrees", "ShowWorktree"} => last.reads = 0
    /\ last.reads # 0 => (Prompted /\ last.reads = 1)

C8_Witness ==
    /\ Removing
    /\ last.args.opts.Force
    /\ Issued("worktree remove --force") # {}
    /\ last.ret = "nil"
    /\ last.reads = 0

\* C9: AddWorktree with both branch and checkout fails with the
\* invalid-argument error before any side effect: no directory was created and
\* no `git worktree add` was issued.
C9_InvalidBeforeSideEffect ==
    (last.op = "AddWorktree" /\ last.args.branch # <<>> /\ last.args.checkout # <<>>) =>
        /\ last.ret = "InvalidArgument"
        /\ dirs = last.pre.dirs
        /\ Issued("worktree add") = {}

\* `git worktree add` of the last add call succeeded (the enumeration after
\* it was issued) and that enumeration holds no record of the requested name.
CreatedButNotFound ==
    /\ last.op \in {"AddWorktree", "handleAddWorktree"}
    /\ Issued("worktree add") # {}
    /\ Len(gitWorktrees) = Len(last.pre.wts) + 1
    /\ NamedIn(Enumerate, last.args.name) = {}

\* C10: when `git worktree add` succeeded and the enumeration after it holds
\* no record of the requested name, AddWorktree and handleAddWorktree return
\* an error.
C10_NotFoundIsError == CreatedButNotFound => last.ret # "nil"

\* C11: in every reachable state no two records of one enumeration have the
\* same name.
C11_NamesUnique ==
    \A i, j \in 1..Len(Enumerate) : Enumerate[i].Name = Enumerate[j].Name => i = j

\* The last call was ShowWorktree or RemoveWorktree, its enumeration
\* succeeded, and no record of it has a name equal to the name argument.
NameAbsent ==
    /\ last.op \in {"ShowWorktree", "RemoveWorktree"}
    /\ last.pre.inRepo
    /\ NamedIn(PreEnumerate, last.args.name) = {}

\* C12: ShowWorktree and RemoveWorktree of a name no record is exactly equal
\* to fail with the not-found error; nothing is prompted or read, the
\* enumeration is the only command issued, and the repository is unchanged.
C12_AbsentNameNotFound ==
    NameAbsent =>
        /\ last.ret = "NotFound"
        /\ last.out = <<>>
        /\ last.reads = 0
        /\ last.cmds = <<ListCmd>>
        /\ RepoUnchanged

\* RemoveWorktree("x/a") without Force while the worktree created for "x/a"
\* is listed under the name "a": a partial match exists, an exact one does not.
C12_Witness ==
    /\ NameAbsent
    /\ last.op = "RemoveWorktree"
    /\ ~last.args.opts.Force
    /\ last.args.name = <<"x", "a">>
    /\ NamedIn(PreEnumerate, Base(last.args.name)) # {}
    /\ last.ret = "NotFound"

\* The last call was ShowWorktree with a field, of a name the enumeration
\* holds.
ShowingField ==
    /\ last.op = "ShowWorktree"
    /\ last.pre.inRepo
    /\ NamedIn(PreEnumerate, last.args.name) # {}
    /\ last.args.field # ""

\* The value of one field of a record, as one printed value.
FieldValue(wt, field) ==
    CASE field = "name" -> wt.Name
      [] field = "branch" -> wt.Branch
      [] field = "path" -> wt.Path
      [] field = "head" -> wt.HEAD
      [] field = "created" -> FormatTime(wt.Created, "RFC3339")

\* C13: ShowWorktree of an existing name with a field prints exactly the
\* value of that field of the matching record when the field is name, branch,
\* path, head or created, whatever the format is; for any other field it
\* prints nothing and fails with the invalid-argument error.
C13_FieldOutput ==
    ShowingField =>
        IF last.args.field \in {"name", "branch", "path", "head", "created"}
        THEN last.ret = "nil" /\ last.out = << FieldValue(PreTarget, last.args.field) >>
        ELSE last.ret = "InvalidArgument" /\ last.out = <<>>

\* The head of a linked worktree is shown although the format is not one
\* show knows.
C13_Witness ==
    /\ ShowingField
    /\ last.args.field = "head"
    /\ last.args.format = "xml"
    /\ last.args.name = <<"a">>
    /\ last.ret = "nil"
    /\ last.out = << PreTarget.HEAD >>

\* `git worktree add` of the last add call succeeded: git holds one worktree
\* more than before the call, the last of its list.
AddedWorktree ==
    /\ last.op \in {"AddWorktree", "handleAddWorktree"}
    /\ Len(gitWorktrees) = Len(last.pre.wts) + 1

\* C16: with no worktree-root override configured, a worktree created by
\* AddWorktree, called directly or through handleAddWorktree, is located at
\* .wtm/<name> under the repository root.
C16_DefaultLocation ==
    AddedWorktree =>
        gitWorktrees[Len(gitWorktrees)].path = Join(Join(RepoRoot, <<".wtm">>), last.args.name)

\* The last git command of the last call, and the repository it ran in.
LastCmd == last.cmds[Len(last.cmds)]

RepoBeforeLastCmd ==
    IF LastCmd.verb = "worktree add"
    THEN [last.pre EXCEPT !.dirs = @ \cup {resolveWorktreeBase}]
    ELSE IF LastCmd.verb = "worktree remove --force" THEN last.pre
    ELSE IF LastCmd.verb = "branch"
    THEN GitWorktreeRemove(last.pre, last.cmds[Len(last.cmds) - 1]).repo
    ELSE Repo

\* Command c exits non-zero in repository R.
GitFails(R, c) ==
    IF c.verb = "worktree add" THEN ~GitWorktreeAdd(R, c).ok
    ELSE IF c.verb = "worktree remove --force" THEN ~GitWorktreeRemove(R, c).ok
    ELSE IF c.verb = "branch" THEN ~GitBranchDelete(R, c).ok
    ELSE ~R.inRepo

\* The last call issued a git command that exited non-zero.
GitFailed == last.cmds # <<>> /\ GitFails(RepoBeforeLastCmd, LastCmd)

\* The last call reported a failure: an error, or for the handler of
\* wtm_remove, which returns no error, Removed = false.
ReportedFailure ==
    IF last.op = "handleRemoveWorktree" THEN ~last.removed ELSE last.ret # "nil"

\* C19 as stated: whenever a git command of an operation exits non-zero, the
\* operation fails and its error ends with the output git wrote, for every
\* command, the `rev-parse --git-dir` check of AddWorktree included.
C19_GitOutputInError ==
    GitFailed =>
        /\ ReportedFailure
        /\ last.msg # <<>>
        /\ last.msg[Len(last.msg)] = GitOutput(LastCmd)

\* C19 as the code has it: the error ends with the output git wrote, except
\* for the `rev-parse --git-dir` check of AddWorktree, whose failure is
\* reported as "not in a git repository" without git's output.
C19_GitOutputExceptRevParse ==
    GitFailed =>
        /\ ReportedFailure
        /\ last.msg # <<>>
        /\ last.msg[Len(last.msg)] =
              IF LastCmd.verb = "rev-parse --git-dir"
              THEN T("not in a git repository")
              ELSE GitOutput(LastCmd)

\* `git branch -d` failed after the worktree was removed, and the error of
\* RemoveWorktree ends with git's output.
C19_Witness ==
    /\ GitFailed
    /\ last.op = "RemoveWorktree"
    /\ LastCmd.verb = "branch"
    /\ last.ret = "PartialFailure"
    /\ last.msg[Len(last.msg)] = GitOutput(LastCmd)

\* The record's directory is missing in the repository the last call
\* started from, so os.Stat of its path fails.
StatFails(wt) == wt.Path \notin last.pre.dirs

\* C20: a record whose directory could not be stat'ed keeps the zero created
\* value, and the list table, the pretty format of show and the field
\* "created" of show render it as "unknown".
C20_ZeroCreatedUnknown ==
    /\ (last.op = "ListWorktrees" /\ last.args.format = "table" /\ last.ret = "nil")
            => (\A i \in 1..Len(PreEnumerate) :
                    StatFails(PreEnumerate[i])
                        => ( /\ PreEnumerate[i].Created = "zero"
                             /\ last.out[4 * i + 3] = T("unknown") ))
    /\ (last.op = "ShowWorktree" /\ last.ret = "nil" /\ StatFails(PreTarget))
            => ( /\ PreTarget.Created = "zero"
                 /\ (last.args.field = "created" => last.out = << T("unknown") >>)
                 /\ ((last.args.field = "" /\ last.args.format = "pretty")
                        => last.out[Len(last.out)] = T("unknown")) )

\* A line `worktree <path>`.
IsWorktreeLine(line) == Len(line) = 2 /\ line[1] = "worktree"

\* The lines that are the first `worktree <path>` line of their group, a
\* group being a run of lines without a blank line in it.
GroupsWithPath(lines) ==
    { i \in 1..Len(lines) :
        /\ IsWorktreeLine(lines[i])
        /\ \A j \in 1..(i - 1) :
              (\A k \in j..i : lines[k] # <<>>) => ~IsWorktreeLine(lines[j]) }

\* C14: whatever the porcelain text is, no record getWorktrees returns has
\* an empty path, and groups of lines without a `worktree <path>` line give
\* no record: there is one record for each group that holds such a line.
C14_NoEmptyPath ==
    (pure.fn = "getWorktrees" /\ pure.done) =>
        /\ \A i \in 1..Len(pure.records) : pure.records[i].Path # <<>>
        /\ Len(pure.records) = Cardinality(GroupsWithPath(pure.lines))

\* A group without a path (HEAD, blank line), then a group with one: one
\* record.
C14_Witness ==
    /\ pure.fn = "getWorktrees"
    /\ pure.done
    /\ Len(pure.lines) = 3
    /\ pure.lines[1] = <<"HEAD", <<1>>>>
    /\ pure.lines[2] = <<>>
    /\ IsWorktreeLine(pure.lines[3])
    /\ Len(pure.records) = 1

\* One call of resolveWorktreeBase is done; the override is the configured
\* worktreeRoot without the white space around it.
Resolved == pure.fn = "resolveWorktreeBase" /\ pure.done

Override == TrimSpace(pure.root)

RepoRootPath == <<"/">> \o RepoRoot

\* C15 as stated: resolveWorktreeBase returns <repository root>/.git/wtm/worktrees
\* with no override, exactly the override when it is absolute, and
\* <repository root>/<override> when it is relative, in every directory of
\* the repository.
C15_BaseIsOverride ==
    Resolved =>
        pure.base = IF Override = <<>> THEN RepoRootPath \o <<".git", "wtm", "worktrees">>
                    ELSE IF IsAbs(Override) THEN Override
                    ELSE RepoRootPath \o Override

\* C15 as the code has it: the override, alone or under the repository root,
\* is returned cleaned (filepath.Clean), so an override that holds ".." is
\* not returned as written.
C15_BaseIsCleanOverride ==
    Resolved =>
        pure.base = IF Override = <<>> THEN RepoRootPath \o <<".git", "wtm", "worktrees">>
                    ELSE IF IsAbs(Override) THEN Clean(Override)
                    ELSE Clean(RepoRootPath \o Override)

\* A relative override resolved in a directory below the repository root.
C15_Witness ==
    /\ Resolved
    /\ pure.root = <<"custom", "worktrees">>
    /\ pure.cwd = RepoRootPath \o <<"sub">>
    /\ pure.base = RepoRootPath \o <<"custom", "worktrees">>

\* The configuration file the process would read now.
CurrentFile == proc.files[configFilePath(proc.env)]

\* C17: between two calls of resetConfigCache the configuration file is read
\* at most once and every call of loadConfig returns what the first call
\* returned, whatever happened to the file and the environment since; a file
\* that does not exist gives the zero Config and no error.
C17_LoadedOnce ==
    /\ proc.reads <= 1
    /\ proc.op \in {"loadConfig", "resolveWorktreeBase"} => proc.ret = proc.first
    /\ proc.seen = "absent" => proc.first = Loaded(Config(<<>>), "nil")

\* The second loadConfig since the reset returns the first result although
\* the file the process would read now holds something else.
C17_Witness ==
    /\ proc.op = "loadConfig"
    /\ proc.calls = 2
    /\ proc.reads = 1
    /\ proc.ret = proc.first
    /\ proc.ret # readConfig(CurrentFile)

\* The records the process listed are the worktrees git holds now, in git's
\* order, each with its path and its branch.
ListedIsCurrent ==
    /\ Len(proc.listed) = Len(gitWorktrees)
    /\ \A i \in 1..Len(gitWorktrees) :
          /\ proc.listed[i].Path = gitWorktrees[i].path
          /\ proc.listed[i].Branch = gitWorktrees[i].branch

\* The base directory the process resolved is the one configuration c gives.
BaseFrom(c) ==
    /\ proc.baseErr = resolveWorktreeBaseFrom(c, <<"/">> \o RepoRoot).err
    /\ proc.base = resolveWorktreeBaseFrom(c, <<"/">> \o RepoRoot).base

PrimarySuffix == T(" (primary)")

\* The names the output prints with the suffix right after them.
Suffixed(out) == { out[j] : j \in { k \in 1..(Len(out) - 1) : out[k + 1] = PrimarySuffix } }

ListingRows ==
    /\ last.op = "ListWorktrees"
    /\ last.args.format \in {"table", "plain"}
    /\ last.ret = "nil"

\* C21: ListWorktrees in the table and plain formats prints " (primary)"
\* after the name of the main worktree, and after no other name.
C21_PrimarySuffix ==
    ListingRows => Suffixed(last.out) = { PreEnumerate[1].Name }

Printed == pure.fn = "printTableFormat" /\ pure.done

\* C22: the table of one or more worktrees has one header line and one line
\* per worktree, and in every line the branch and the created value start
\* at the offsets at which BRANCH and CREATED start in the header, whatever
\* the lengths of the names and the branches.
C22_ColumnsAligned ==
    (Printed /\ Len(pure.rows) > 0) =>
        (/\ Len(pure.layout) = Len(pure.rows) + 1
         /\ \A i \in 2..Len(pure.layout) :
               /\ pure.layout[i].branch = pure.layout[1].branch
               /\ pure.layout[i].created = pure.layout[1].created)

\* The `git worktree add` commands the last call issued.
AddCmds == { last.cmds[i] : i \in Issued("worktree add") }

\* The path <base-dir>/<name> of the worktree the last call asked for.
AskedPath == Join(resolveWorktreeBase, last.args.name)

\* An AddWorktree call issues one `git worktree add` when it returns nil and
\* at most one otherwise, of the form its arguments select: -b <branch>
\* [<base>] with branch set, <checkout> and no base with only checkout set,
\* -b <name> [<base>] with neither.
C23_CommandForm ==
    (last.op = "AddWorktree") =>
        (/\ Cardinality(Issued("worktree add")) <= 1
         /\ (last.ret = "nil" => AddCmds # {})
         /\ \A c \in AddCmds :
               c = IF last.args.branch # <<>>
                   THEN Cmd("worktree add", AskedPath, "-b", last.args.branch, last.args.base)
                   ELSE IF last.args.checkout # <<>>
                   THEN Cmd("worktree add", AskedPath, "", last.args.checkout, <<>>)
                   ELSE Cmd("worktree add", AskedPath, "-b", last.args.name, last.args.base))

\* C23: AddWorktree selects the form of `git worktree add` from its
\* arguments, and after AddWorktree(name, branch = b) returned nil the
\* enumeration holds a record whose name is name and whose branch is b.
C23_AddMode ==
    /\ C23_CommandForm
    /\ (last.op = "AddWorktree" /\ last.args.branch # <<>> /\ last.ret = "nil") =>
          \E i \in NamedIn(Enumerate, last.args.name) : Enumerate[i].Branch = last.args.branch

HandlingRemove == last.op = "handleRemoveWorktree"

\* C24: handleRemoveWorktree returns Removed = true exactly when the
\* enumeration held a record of the name before the call and holds none
\* after it.
C24_RemovedIffGone ==
    HandlingRemove =>
        (last.removed <=>
            (NamedIn(PreEnumerate, last.args.name) # {} /\ NamedIn(Enumerate, last.args.name) = {}))

\* C29: the message of handleRemoveWorktree holds "(branch deleted)" only
\* when the call deleted a branch of the repository.
C29_BranchDeletedIsTrue ==
    (HandlingRemove /\ Contains(last.msg, "(branch deleted)")) =>
        DOMAIN gitBranches # DOMAIN last.pre.branches

ToolHandlers ==
    { "handleAddWorktree", "handleListWorktrees", "handleShowWorktree", "handleRemoveWorktree" }

\* C30: a tool handler writes nothing to the standard output of the server
\* process and reads nothing from its standard input.
C30_HandlersLeaveStdio ==
    (last.op \in ToolHandlers) => (last.out = <<>> /\ last.reads = 0)

\* The last call was a RemoveWorktree that found its worktree and went past
\* the confirmation step: Force was set, or a whole line "y" or "yes" was read.
Proceeds ==
    /\ Removing
    /\ \/ last.args.opts.Force
       \/ (ReadString(last.args.stdin).err = "nil" /\ Affirmative(last.args.stdin))

DetachedWithBranchDelete ==
    /\ Proceeds
    /\ last.args.opts.BranchDelete # BranchDeleteNone
    /\ PreTarget.Branch = <<>>

Parsed == pure.fn = "getWorktrees" /\ pure.done

\* The first and the last line of the group that line i of lines is in.
GroupStart(lines, i) ==
    LET blanks == { j \in 1..(i - 1) : lines[j] = <<>> }
    IN  IF blanks = {} THEN 1 ELSE (CHOOSE j \in blanks : \A k \in blanks : k <= j) + 1

GroupEnd(lines, i) ==
    LET blanks == { j \in (i + 1)..Len(lines) : lines[j] = <<>> }
    IN  IF blanks = {} THEN Len(lines) ELSE (CHOOSE j \in blanks : \A k \in blanks : j <= k) - 1

\* The first `worktree <path>` line of the k-th group that has one.
KthGroup(lines, k) ==
    CHOOSE i \in GroupsWithPath(lines) :
        Cardinality({ j \in GroupsWithPath(lines) : j < i }) = k - 1

\* The value of the last line with the key among the lines from..to, <<>>
\* when there is none.
LastValue(lines, from, to, key) ==
    LET hit == { j \in from..to : Len(lines[j]) = 2 /\ lines[j][1] = key }
    IN  IF hit = {} THEN <<>> ELSE lines[CHOOSE j \in hit : \A k \in hit : k <= j][2]

StripRefsHeads(value) ==
    IF Len(value) > 2 /\ value[1] = "refs" /\ value[2] = "heads"
    THEN SubSeq(value, 3, Len(value)) ELSE value

\* The reference decoding of one group: the values of its own lines only.
RefRecord(lines, i) ==
    LET from == GroupStart(lines, i)
        to == GroupEnd(lines, i)
        path == LastValue(lines, from, to, "worktree")
    IN  Worktree(Base(path), StripRefsHeads(LastValue(lines, from, to, "branch")), path,
                 LastValue(lines, from, to, "HEAD"), "zero")

RefRecords(lines) ==
    [k \in 1..Cardinality(GroupsWithPath(lines)) |-> RefRecord(lines, KthGroup(lines, k))]

RmFound == rm.listed[findByName(rm.listed, rm.name)]

RmConfirmedOrForced ==
    \/ rm.opts.Force
    \/ (ReadString(rm.stdin).err = "nil" /\ Affirmative(rm.stdin))

\* C25: at every point of every RemoveWorktree call, also when others change
\* the repository between its steps, the commands issued so far are the
\* enumeration, then at most one `git worktree remove --force` of the found
\* record's path, issued only after the name was found and the call was
\* confirmed or forced, then at most one `git branch`, issued only after the
\* removal succeeded, only when a branch deletion is asked for and the found
\* record has a branch, with -d for BranchDeleteSafe and -D for
\* BranchDeleteForce; no command follows a failed one.
C25_RemoveOrder ==
    (rm.pc # "idle") =>
        (/\ Len(rm.cmds) \in 1..3
         /\ rm.cmds[1].cmd = ListCmd
         /\ \A i \in 1..(Len(rm.cmds) - 1) : rm.cmds[i].ok
         /\ (Len(rm.cmds) >= 2) =>
               (/\ findByName(rm.listed, rm.name) # 0
                /\ RmConfirmedOrForced
                /\ rm.cmds[2].cmd = Cmd("worktree remove --force", RmFound.Path, "", <<>>, <<>>))
         /\ (Len(rm.cmds) = 3) =>
               (/\ rm.opts.BranchDelete # BranchDeleteNone
                /\ RmFound.Branch # <<>>
                /\ rm.cmds[3].cmd =
                      Cmd("branch", <<>>,
                          IF rm.opts.BranchDelete = BranchDeleteSafe THEN "-d" ELSE "-D",
                          RmFound.Branch, <<>>)))

\* A call during which the repository was changed by others, whose
\* `git branch` failed after the worktree was removed, and that ended there.
C25_Witness ==
    /\ rm.pc = "done"
    /\ rm.external > 0
    /\ Len(rm.cmds) = 3
    /\ rm.cmds[2].ok
    /\ ~rm.cmds[3].ok
    /\ rm.opts.BranchDelete = BranchDeleteForce
    /\ rm.ret = "PartialFailure"

====
